---- MODULE Spec2Model ----
(***************************************************************************)
(* Model of the cache and rate-limiter core of the medication price        *)
(* backend: backend/rate_limit.py (TokenBucket, RateLimiter, rate_limit),  *)
(* backend/cache.py (MCPCache, cache_mcp_result) and their composition on  *)
(* the endpoints of backend/main.py; the usage tracker of                  *)
(* backend/rate_limit.py (RateLimitTracker).                               *)
(*                                                                         *)
(* Time is counted in ticks, TicksPerSecond ticks to the second.  Token    *)
(* amounts are kept multiplied by TicksPerSecond, so that the real-valued  *)
(* refill  elapsed * rate  of the code is an exact integer here: a bucket  *)
(* field  tokens = k  stands for  k / TicksPerSecond  tokens.  Floating    *)
(* point rounding is not modelled.                                         *)
(***************************************************************************)
EXTENDS Integers, Sequences, FiniteSets, TLC

VARIABLES
    now,          \* the clock read by time.time() and datetime.now(), in ticks
    tool_limits,  \* RateLimiter.tool_limits: tool name -> <<rate, capacity>>
    limiters,     \* RateLimiter.limiters: tool name -> TokenBucket
    cache,        \* MCPCache._cache: key -> [value, expires_at]
    calls,        \* per caller: the wrapped call suspended in  await func(...)
    hist,         \* log of the operations performed (see Log)
    usage,        \* RateLimitTracker.usage: tool name -> timestamps, in ticks
    out,          \* what the last direct call of a harness was and returned
    shadow,       \* a second MCPCache, given the same calls and never swept
    sweeper,      \* the task clean_expired_cache: its state and wake-up time
    mode          \* which harness drives the program: "system", "bucket", "e2e",
                  \* "cache", "tracker", "key", and those of the later harnesses

vars == <<now, tool_limits, limiters, cache, calls, hist, usage, out, shadow, sweeper, mode>>

(* ------------------------------ bounds -------------------------------- *)

TicksPerSecond == 2
MaxTime == 3
MaxCost == 2
MaxHist == 4
MaxTtl == 1
MaxAge == 2
MaxSamples == 3
SweepSeconds == 1

(* ----------------------------- constants ------------------------------ *)

\* Python's None
None == "None"

\* MCPCache() default time-to-live, seconds
DefaultTtl == 3600

\* Optional[int] = None for a ttl_seconds argument
NoTtl == -1

Min(a, b) == IF a <= b THEN a ELSE b

(* --------------------------- TokenBucket ------------------------------ *)

\* TokenBucket.__init__ at clock reading t
TokenBucket(rate, capacity, t) ==
    [rate |-> rate, capacity |-> capacity,
     tokens |-> capacity * TicksPerSecond, last_update |-> t]

_add_tokens_frozen(b, t) == [b EXCEPT !.last_update = t]

_add_tokens_uncapped(b, t) ==
    [b EXCEPT !.tokens = b.tokens + (t - b.last_update) * b.rate,
              !.last_update = t]

_add_tokens_whole(b, t) ==
    [b EXCEPT !.tokens =
                 Min(b.capacity * TicksPerSecond,
                     b.tokens + (((t - b.last_update) * b.rate)
                                    \div TicksPerSecond) * TicksPerSecond),
              !.last_update = t]

_add_tokens_keep_stamp(b, t) ==
    [b EXCEPT !.tokens = Min(b.capacity * TicksPerSecond,
                             b.tokens + (t - b.last_update) * b.rate)]

\* TokenBucket._add_tokens at clock reading t
_add_tokens(b, t) ==
    [b EXCEPT !.tokens = Min(b.capacity * TicksPerSecond,
                             b.tokens + (t - b.last_update) * b.rate),
              !.last_update = t]

acquire_partial(b, tokens, t) ==
    LET r == _add_tokens(b, t) IN
    IF r.tokens >= tokens * TicksPerSecond
    THEN [ok |-> TRUE,
          bucket |-> [r EXCEPT !.tokens = @ - tokens * TicksPerSecond]]
    ELSE [ok |-> FALSE, bucket |-> [r EXCEPT !.tokens = 0]]

acquire_strict(b, tokens, t) ==
    LET r == _add_tokens(b, t) IN
    IF r.tokens > tokens * TicksPerSecond
    THEN [ok |-> TRUE,
          bucket |-> [r EXCEPT !.tokens = @ - tokens * TicksPerSecond]]
    ELSE [ok |-> FALSE, bucket |-> r]

\* TokenBucket.acquire(tokens) at clock reading t: the result and the bucket after
acquire(b, tokens, t) ==
    LET r == _add_tokens(b, t) IN
    IF r.tokens >= tokens * TicksPerSecond
    THEN [ok |-> TRUE,
          bucket |-> [r EXCEPT !.tokens = @ - tokens * TicksPerSecond]]
    ELSE [ok |-> FALSE, bucket |-> r]

(* --------------------------- RateLimiter ------------------------------ *)

\* RateLimiter.__init__: the table of limits per tool
ToolLimits ==
    ("search_medication_price" :> <<5, 10>>) @@
    ("find_generic_alternatives" :> <<2, 5>>) @@
    ("find_pharmacies" :> <<2, 5>>) @@
    ("compare_prices" :> <<1, 3>>) @@
    ("default" :> <<10, 20>>)

\* RateLimiter.__init__: one bucket per entry of the table
InitLimiters(t) ==
    [tool \in DOMAIN ToolLimits |->
        TokenBucket(ToolLimits[tool][1], ToolLimits[tool][2], t)]

ResolveBucket_spread(lims, tool_name) ==
    IF tool_name \in DOMAIN lims THEN tool_name
    ELSE IF tool_name = "tavily_extract" THEN "find_pharmacies" ELSE "default"

\* self.limiters.get(tool_name, self.limiters["default"]): the name of the bucket
ResolveBucket(lims, tool_name) ==
    IF tool_name \in DOMAIN lims THEN tool_name ELSE "default"

check_rate_limit_lazy(lims, tool_name, tokens, t) ==
    LET all == IF tool_name \in DOMAIN lims THEN lims
               ELSE (tool_name :> [lims["default"] EXCEPT !.last_update = t])
                    @@ lims
        a == acquire(all[tool_name], tokens, t)
    IN [ok |-> a.ok, bucket |-> tool_name,
        limiters |-> [all EXCEPT ![tool_name] = a.bucket]]

\* RateLimiter.check_rate_limit(tool_name, tokens) at clock reading t
check_rate_limit(lims, tool_name, tokens, t) ==
    LET name == ResolveBucket(lims, tool_name)
        a == acquire(lims[name], tokens, t)
    IN [ok |-> a.ok, bucket |-> name,
        limiters |-> [lims EXCEPT ![name] = a.bucket]]

\* rate_limit.wrapper on a rejection:
\*   retry_after = 1.0 / rate_limiter.tool_limits.get(actual_tool, (1, 1))[0]
\* as the fraction <<numerator, denominator>> of a second
retry_after(limits, actual_tool) ==
    <<1, IF actual_tool \in DOMAIN limits THEN limits[actual_tool][1] ELSE 1>>

\* f"{retry_after:.1f}" in the message of MCPRateLimitError: the fraction q of a
\* second rounded to tenths of a second (the hint the caller gets to see)
FormatTenths(q) == (2 * 10 * q[1] + q[2]) \div (2 * q[2])

(* ------------------------------ MCPCache ------------------------------ *)

\* json.dumps(kwargs, sort_keys=True): the items of the dict ordered by key.
\* A dict is a sequence of <<key, value>> pairs in insertion order; keys are
\* compared by their position in KwNames.
KwNames == <<"key1", "key2">>

KwRank(k) == CHOOSE i \in 1..Len(KwNames) : KwNames[i] = k

RECURSIVE KwInsert(_, _)
KwInsert(sorted, item) ==
    IF sorted = << >> THEN <<item>>
    ELSE IF KwRank(item[1]) <= KwRank(Head(sorted)[1])
         THEN <<item>> \o sorted
         ELSE <<Head(sorted)>> \o KwInsert(Tail(sorted), item)

RECURSIVE SortKeys(_)
SortKeys(kwargs) ==
    IF kwargs = << >> THEN << >>
    ELSE KwInsert(SortKeys(Tail(kwargs)), Head(kwargs))

\* The items of a JSON list or object, ", " between them.  A string is the
\* sequence of its tokens: a quoted string is one token, and so is each piece of
\* punctuation.
RECURSIVE JoinItems(_)
JoinItems(items) ==
    IF items = << >> THEN << >>
    ELSE IF Len(items) = 1 THEN Head(items)
    ELSE Head(items) \o <<", ">> \o JoinItems(Tail(items))

\* json.dumps(args, sort_keys=True) of a tuple of strings
DumpsArgs(args) ==
    <<"[">> \o JoinItems([i \in 1..Len(args) |-> <<args[i]>>]) \o <<"]">>

DumpsKwargs_unsorted(kwargs) ==
    <<"{">> \o JoinItems([i \in 1..Len(kwargs) |->
                            <<kwargs[i][1], ": ", kwargs[i][2]>>]) \o <<"}">>

\* json.dumps(kwargs, sort_keys=True) of a dict of strings
DumpsKwargs(kwargs) ==
    LET sorted == SortKeys(kwargs) IN
    <<"{">> \o JoinItems([i \in 1..Len(sorted) |->
                            <<sorted[i][1], ": ", sorted[i][2]>>]) \o <<"}">>

\* MCPCache._generate_key: sha256 of f"{tool_name}:{args_str}:{kwargs_str}".  The
\* digest is modelled by the string it is computed from (no collisions).
_generate_key(tool_name, args, kwargs) ==
    <<tool_name, ":">> \o DumpsArgs(args) \o <<":">> \o DumpsKwargs(kwargs)

Without(c, key) == [k \in DOMAIN c \ {key} |-> c[k]]

get_sweep(c, key, t) ==
    IF key \notin DOMAIN c THEN [value |-> None, cache |-> c]
    ELSE IF t > c[key].expires_at
         THEN [value |-> None,
               cache |-> [k \in {j \in DOMAIN c : ~(t > c[j].expires_at)}
                            |-> c[k]]]
         ELSE [value |-> c[key].value, cache |-> c]

\* MCPCache.get(key) at clock reading t: the value returned and the cache after
get(c, key, t) ==
    IF key \notin DOMAIN c THEN [value |-> None, cache |-> c]
    ELSE IF t > c[key].expires_at
         THEN [value |-> None, cache |-> Without(c, key)]
         ELSE [value |-> c[key].value, cache |-> c]

\* ttl_seconds or self._ttl_seconds  (NoTtl stands for ttl_seconds = None)
EffectiveTtl(ttl_seconds) ==
    IF ttl_seconds = NoTtl \/ ttl_seconds = 0 THEN DefaultTtl ELSE ttl_seconds

\* MCPCache.set(key, value, ttl_seconds) at clock reading t: the cache after
set(c, key, value, ttl_seconds, t) ==
    (key :> [value |-> value,
             expires_at |-> t + EffectiveTtl(ttl_seconds) * TicksPerSecond])
    @@ Without(c, key)

clear_keep_one(c) ==
    IF DOMAIN c = {} THEN c
    ELSE LET kept == CHOOSE k \in DOMAIN c : TRUE IN [k \in {kept} |-> c[k]]

\* MCPCache.clear(): the cache after
clear(c) == << >>

remove_expired_early(c, t) ==
    [k \in {j \in DOMAIN c : t + TicksPerSecond <= c[j].expires_at} |-> c[k]]

remove_expired_inclusive(c, t) ==
    [k \in {j \in DOMAIN c : t < c[j].expires_at} |-> c[k]]

\* MCPCache.remove_expired() at clock reading t: the cache after
remove_expired(c, t) ==
    LET expired_keys == {k \in DOMAIN c : t > c[k].expires_at} IN
    [k \in DOMAIN c \ expired_keys |-> c[k]]

(* -------------------------- RateLimitTracker -------------------------- *)

\* RateLimitTracker.record_request(tool_name) at clock reading t: the usage after
record_request(u, tool_name, t) ==
    IF tool_name \in DOMAIN u
    THEN [u EXCEPT ![tool_name] = Append(@, t)]
    ELSE (tool_name :> <<t>>) @@ u

\* [ts for ts in samples if ts > start]
After(samples, start) == SelectSeq(samples, LAMBDA ts : ts > start)

get_usage_stats_inclusive(u, tool_name, window_seconds, t) ==
    IF tool_name \notin DOMAIN u THEN [requests |-> 0, rate |-> <<0, 1>>]
    ELSE LET window_start == t - window_seconds * TicksPerSecond
             num_requests ==
                Len(SelectSeq(u[tool_name], LAMBDA ts : ts >= window_start))
         IN [requests |-> num_requests,
             rate |-> IF window_seconds > 0
                      THEN <<num_requests, window_seconds>> ELSE <<0, 1>>,
             window_seconds |-> window_seconds]

\* RateLimitTracker.get_usage_stats(tool_name, window_seconds) at clock reading
\* t: the dict returned.  The rate is the fraction <<numerator, denominator>>.
get_usage_stats(u, tool_name, window_seconds, t) ==
    IF tool_name \notin DOMAIN u THEN [requests |-> 0, rate |-> <<0, 1>>]
    ELSE LET window_start == t - window_seconds * TicksPerSecond
             num_requests == Len(After(u[tool_name], window_start))
         IN [requests |-> num_requests,
             rate |-> IF window_seconds > 0
                      THEN <<num_requests, window_seconds>> ELSE <<0, 1>>,
             window_seconds |-> window_seconds]

cleanup_old_data_keep_cutoff(u, max_age_seconds, t) ==
    LET cutoff == t - max_age_seconds * TicksPerSecond IN
    [tool_name \in DOMAIN u |->
        SelectSeq(u[tool_name], LAMBDA ts : ts >= cutoff)]

\* RateLimitTracker.cleanup_old_data(max_age_seconds) at clock reading t: the
\* usage after
cleanup_old_data(u, max_age_seconds, t) ==
    LET cutoff == t - max_age_seconds * TicksPerSecond IN
    [tool_name \in DOMAIN u |-> After(u[tool_name], cutoff)]

(* ----------------------- the wrapped operations ----------------------- *)

\* The decorated operation of the model, test_func of
\* test_combined_cache_and_rate_limit: the function's name (the cache key's tool
\* name), the limiter's tool name, its cost, and the cache's ttl_seconds.  The
\* endpoints of main.py are decorated the same way, limiter outside cache.
TestFunc ==
    [fname |-> "test_func", tool |-> "test_tool", tokens |-> 1, ttl |-> 1]

\* What the wrapped operation can do when awaited: return a value (None
\* included) or raise (an upstream error, a cancellation, a timeout).
Results == {"success", None}
Failures == {"UpstreamError", "CancelledError", "TimeoutError"}
Outcomes ==
    {[ok |-> TRUE, value |-> v] : v \in Results} \cup
    {[ok |-> FALSE, value |-> f] : f \in Failures}

wrapper_enter_lookup_first(lims, c, w, args, kwargs, t) ==
    LET rl == check_rate_limit(lims, w.tool, w.tokens, t)
        key == _generate_key(w.fname, args, kwargs)
        g == get(c, key, t)
    IN IF ~rl.ok
       THEN [outcome |-> "rate_limited", value |-> "MCPRateLimitError",
             key |-> key, bucket |-> rl.bucket,
             limiters |-> rl.limiters, cache |-> g.cache]
       ELSE IF g.value # None
       THEN [outcome |-> "hit", value |-> g.value,
             key |-> key, bucket |-> rl.bucket,
             limiters |-> rl.limiters, cache |-> g.cache]
       ELSE [outcome |-> "miss", value |-> None,
             key |-> key, bucket |-> rl.bucket,
             limiters |-> rl.limiters, cache |-> g.cache]

\* rate_limit(...).wrapper around cache_mcp_result(...).wrapper, from the call up
\* to  await func(...)  or to its return or raise before that: no step of it
\* suspends.  outcome: "rate_limited" (MCPRateLimitError raised), "hit" (the
\* cached value returned), "miss" (func is awaited).
wrapper_enter(lims, c, w, args, kwargs, t) ==
    LET rl == check_rate_limit(lims, w.tool, w.tokens, t)
        key == _generate_key(w.fname, args, kwargs)
        g == get(c, key, t)
    IN IF ~rl.ok
       THEN [outcome |-> "rate_limited", value |-> "MCPRateLimitError",
             key |-> key, bucket |-> rl.bucket,
             limiters |-> rl.limiters, cache |-> c]
       ELSE IF g.value # None
       THEN [outcome |-> "hit", value |-> g.value,
             key |-> key, bucket |-> rl.bucket,
             limiters |-> rl.limiters, cache |-> g.cache]
       ELSE [outcome |-> "miss", value |-> None,
             key |-> key, bucket |-> rl.bucket,
             limiters |-> rl.limiters, cache |-> g.cache]

wrapper_exit_refund(lims, c, call, o, t) ==
    [limiters |->
        IF o.ok THEN lims
        ELSE [lims EXCEPT ![call.bucket].tokens =
                 Min(lims[call.bucket].capacity * TicksPerSecond,
                     @ + call.w.tokens * TicksPerSecond)],
     cache |-> IF o.ok THEN set(c, call.key, o.value, call.w.ttl, t) ELSE c,
     result |-> IF o.ok THEN [status |-> "return", value |-> o.value]
                ELSE [status |-> "raise", value |-> o.value]]

wrapper_exit_cache_failure(lims, c, call, o, t) ==
    [limiters |-> lims,
     cache |-> set(c, call.key, o.value, call.w.ttl, t),
     result |-> IF o.ok THEN [status |-> "return", value |-> o.value]
                ELSE [status |-> "raise", value |-> o.value]]

wrapper_exit_first_write_wins(lims, c, call, o, t) ==
    [limiters |-> lims,
     cache |-> IF o.ok /\ get(c, call.key, t).value = None
               THEN set(c, call.key, o.value, call.w.ttl, t) ELSE c,
     result |-> IF o.ok THEN [status |-> "return", value |-> o.value]
                ELSE [status |-> "raise", value |-> o.value]]

\* The two wrappers after  await func(...)  completed with o: the cache wrapper
\* stores a returned value, an exception passes through both (neither has a
\* handler), and the limiter wrapper hands on what it got.
wrapper_exit(lims, c, call, o, t) ==
    [limiters |-> lims,
     cache |-> IF o.ok THEN set(c, call.key, o.value, call.w.ttl, t) ELSE c,
     result |-> IF o.ok THEN [status |-> "return", value |-> o.value]
                ELSE [status |-> "raise", value |-> o.value]]

(* ------------------------------- state -------------------------------- *)

Callers == {"c1", "c2"}

\* The arguments the callers pass
ArgSets == {<<"arg1">>, <<"arg2">>}
NoKwargs == << >>

Idle == [status |-> "idle"]

\* RateLimiter() with the limit (1, 2) for test_tool that
\* test_rate_limiter_check_rate_limit injects into the table and the registry
InjectedLimits == ("test_tool" :> <<1, 2>>) @@ ToolLimits

InjectedLimiters(t) == ("test_tool" :> TokenBucket(1, 2, t)) @@ InitLimiters(t)

\* One logged step: the clock, the bucket the limiter resolved and its tokens
\* after the step, what the limiter and the cache wrapper decided, what the
\* caller got (result), whether the call has removed a cache entry, and the
\* retry-after hint of a rejection, in tenths of a second (hint, else 0).
Event(kind, caller, tool, cost, bucket, ok, key, outcome, res, evicted, hint) ==
    [kind |-> kind, caller |-> caller, tool |-> tool, cost |-> cost,
     at |-> now, bucket |-> bucket, tokens |-> limiters'[bucket].tokens,
     ok |-> ok, key |-> key, outcome |-> outcome, result |-> res,
     evicted |-> evicted, hint |-> hint]

NoResult == [status |-> "none", value |-> None]

\* No direct call made so far
NoOut == [op |-> "none"]

\* The task clean_expired_cache before startup_event has created it
NotStarted == [status |-> "not_started"]

TickEvent ==
    [kind |-> "tick", caller |-> None, tool |-> None, cost |-> 0,
     at |-> now, bucket |-> "default", tokens |-> 0,
     ok |-> TRUE, key |-> None, outcome |-> "none", result |-> NoResult,
     evicted |-> FALSE, hint |-> 0]

\* In "system", "shared" and "stats" mode the log holds the last step only.
\* The "bucket" and "e2e"
\* harnesses log every operation (not the ticks); the "bucket" and "concurrent"
\* harnesses stop after MaxHist operations, the "e2e" harness at the end of
\* its script.
LastOnly == {"system", "shared", "stats"}
CanLog == mode \in {"bucket", "concurrent"} => Len(hist) < MaxHist
Log(e) == hist' = IF mode \in LastOnly THEN <<e>> ELSE Append(hist, e)

\* The program after construction, with or without the injected limit
InitWith(m, injected) ==
    /\ now = 0
    /\ tool_limits = IF injected THEN InjectedLimits ELSE ToolLimits
    /\ limiters = IF injected THEN InjectedLimiters(0) ELSE InitLimiters(0)
    /\ cache = << >>
    /\ calls = [c \in Callers |-> Idle]
    /\ hist = << >>
    /\ usage = << >>
    /\ out = NoOut
    /\ shadow = << >>
    /\ sweeper = NotStarted
    /\ mode = m

Init == \E injected \in BOOLEAN : InitWith("system", injected)

(* ------------------------------ actions ------------------------------- *)

\* Time passes: one tick
Tick ==
    /\ now < MaxTime
    /\ now' = now + 1
    /\ hist' = IF mode \in LastOnly THEN <<TickEvent>> ELSE hist
    /\ UNCHANGED <<tool_limits, limiters, cache, calls, usage, out, shadow, sweeper, mode>>

\* await rate_limiter.check_rate_limit(tool_name, tokens)
CheckRateLimit(tool_name, tokens) ==
    LET rl == check_rate_limit(limiters, tool_name, tokens, now) IN
    /\ CanLog
    /\ limiters' = rl.limiters
    /\ Log(Event("acquire", None, tool_name, tokens, rl.bucket, rl.ok, None,
                 "none", NoResult, FALSE, 0))
    /\ UNCHANGED <<now, tool_limits, cache, calls, usage, out, shadow, sweeper, mode>>

\* A caller calls a decorated operation: the wrappers run up to  await func(...)
CallStart(c, w, args) ==
    LET e == wrapper_enter(limiters, cache, w, args, NoKwargs, now) IN
    /\ calls[c] = Idle
    /\ CanLog
    /\ limiters' = e.limiters
    /\ cache' = e.cache
    /\ calls' = IF e.outcome = "miss"
                THEN [calls EXCEPT ![c] =
                        [status |-> "awaiting", w |-> w, key |-> e.key,
                         bucket |-> e.bucket, at |-> now, cache0 |-> cache,
                         tokens_after |-> e.limiters[e.bucket].tokens]]
                ELSE calls
    /\ Log(Event("start", c, w.tool, w.tokens, e.bucket,
                 e.outcome # "rate_limited", e.key, e.outcome,
                 IF e.outcome = "rate_limited"
                 THEN [status |-> "raise", value |-> e.value]
                 ELSE IF e.outcome = "hit"
                 THEN [status |-> "return", value |-> e.value]
                 ELSE NoResult,
                 e.cache # cache,
                 IF e.outcome = "rate_limited"
                 THEN FormatTenths(retry_after(tool_limits, w.tool))
                 ELSE 0))
    /\ UNCHANGED <<now, tool_limits, usage, out, shadow, sweeper, mode>>

\* The awaited operation of a suspended call completes with outcome o
CallReturn(c, o) ==
    LET call == calls[c]
        x == wrapper_exit(limiters, cache, call, o, now)
    IN
    /\ calls[c] # Idle
    /\ CanLog
    /\ limiters' = x.limiters
    /\ cache' = x.cache
    /\ calls' = [calls EXCEPT ![c] = Idle]
    /\ Log(Event("return", c, call.w.tool, call.w.tokens, call.bucket, TRUE,
                 call.key, IF o.ok THEN "stored" ELSE "failed", x.result,
                 call.cache0 # cache, 0))
    /\ UNCHANGED <<now, tool_limits, usage, out, shadow, sweeper, mode>>

\* The whole program driven by one sequential caller of test_func
Next ==
    \/ Tick
    \/ \E a \in ArgSets : CallStart("c1", TestFunc, a)
    \/ \E o \in Outcomes : CallReturn("c1", o)

Spec == Init /\ [][Next]_vars

(* ---------------------- the token bucket harness ---------------------- *)

\* A RateLimiter driven through check_rate_limit alone, every call logged
InitBucket == \E injected \in BOOLEAN : InitWith("bucket", injected)

NextBucket ==
    \/ Tick
    \/ \E k \in 1..MaxCost : CheckRateLimit("test_tool", k)

SpecBucket == InitBucket /\ [][NextBucket]_vars

(* ---------------------- the end-to-end scenario ----------------------- *)

\* The arguments of the scenario's six calls: three identical calls, then
\* three with arguments not cached so far
E2EScript == <<<<"arg1">>, <<"arg1">>, <<"arg1">>,
               <<"arg2">>, <<"arg3">>, <<"arg3">>>>

Starts == SelectSeq(hist, LAMBDA e : e.kind = "start")

InitE2E == InitWith("e2e", TRUE)

\* The caller makes the scripted calls in order; the upstream operation
\* succeeds whenever it is reached
NextE2E ==
    \/ Tick
    \/ /\ Len(Starts) < Len(E2EScript)
       /\ CallStart("c1", TestFunc, E2EScript[Len(Starts) + 1])
    \/ CallReturn("c1", [ok |-> TRUE, value |-> "success"])

SpecE2E == InitE2E /\ [][NextE2E]_vars

(* -------------------------- the cache harness ------------------------- *)

\* An MCPCache driven through set, get, clear and remove_expired directly, with
\* the keys and values of test_cache_clear and every ttl_seconds up to MaxTtl,
\* None included
DirectKeys == {"key1", "key2"}
DirectValues == {"value1", "value2"}
Ttls == {NoTtl} \cup 0..MaxTtl

\* cache.set(key, value, ttl_seconds)
CacheSet(key, value, ttl_seconds) ==
    /\ cache' = set(cache, key, value, ttl_seconds, now)
    /\ out' = [op |-> "set", key |-> key, value |-> value, evicted |-> FALSE,
               ttl_seconds |-> ttl_seconds]
    /\ UNCHANGED <<now, tool_limits, limiters, calls, hist, usage, shadow, sweeper, mode>>

\* cache.get(key)
CacheGet(key) ==
    LET g == get(cache, key, now) IN
    /\ cache' = g.cache
    /\ out' = [op |-> "get", key |-> key, value |-> g.value,
               evicted |-> g.cache # cache]
    /\ UNCHANGED <<now, tool_limits, limiters, calls, hist, usage, shadow, sweeper, mode>>

\* cache.clear()
CacheClear ==
    /\ cache' = clear(cache)
    /\ out' = [op |-> "clear", key |-> None, value |-> None,
               evicted |-> cache # << >>]
    /\ UNCHANGED <<now, tool_limits, limiters, calls, hist, usage, shadow, sweeper, mode>>

\* cache.remove_expired()
RemoveExpired ==
    /\ cache' = remove_expired(cache, now)
    /\ out' = [op |-> "remove_expired", key |-> None, value |-> None,
               evicted |-> remove_expired(cache, now) # cache]
    /\ UNCHANGED <<now, tool_limits, limiters, calls, hist, usage, shadow, sweeper, mode>>

InitCache == InitWith("cache", FALSE)

NextCache ==
    \/ Tick
    \/ \E k \in DirectKeys, v \in DirectValues, ttl \in Ttls : CacheSet(k, v, ttl)
    \/ \E k \in DirectKeys : CacheGet(k)
    \/ CacheClear
    \/ RemoveExpired

SpecCache == InitCache /\ [][NextCache]_vars

(* ------------------------- the tracker harness ------------------------ *)

\* A RateLimitTracker driven directly, as in test_rate_limit_tracker, for two
\* tool names, at most MaxSamples samples held at a time, and windows and
\* maximal ages of 0..MaxAge seconds
TrackedTools == {"test_tool", "other_tool"}

\* The samples held: <<tool name, position>>
Held(u) ==
    {s \in (DOMAIN u) \X (1..MaxSamples) : s[2] <= Len(u[s[1]])}

\* tracker.record_request(tool_name)
RecordRequest(tool_name) ==
    /\ Cardinality(Held(usage)) < MaxSamples
    /\ usage' = record_request(usage, tool_name, now)
    /\ out' = [op |-> "record_request", tool |-> tool_name]
    /\ UNCHANGED <<now, tool_limits, limiters, cache, calls, hist, shadow, sweeper, mode>>

\* tracker.get_usage_stats(tool_name, window_seconds)
GetUsageStats(tool_name, window_seconds) ==
    /\ out' = [op |-> "get_usage_stats", tool |-> tool_name,
               window_seconds |-> window_seconds,
               stats |-> get_usage_stats(usage, tool_name, window_seconds, now)]
    /\ UNCHANGED <<now, tool_limits, limiters, cache, calls, hist, usage, shadow, sweeper, mode>>

\* tracker.cleanup_old_data(max_age_seconds); the step also notes how many
\* samples it dropped and whether one of them was recorded at the cutoff
CleanupOldData(max_age_seconds) ==
    /\ usage' = cleanup_old_data(usage, max_age_seconds, now)
    /\ out' = [op |-> "cleanup_old_data", max_age_seconds |-> max_age_seconds,
               dropped |-> Cardinality(Held(usage)) - Cardinality(Held(usage')),
               at_cutoff |-> \E tool_name \in DOMAIN usage :
                               \E i \in 1..Len(usage[tool_name]) :
                                  usage[tool_name][i] =
                                     now - max_age_seconds * TicksPerSecond]
    /\ UNCHANGED <<now, tool_limits, limiters, cache, calls, hist, shadow, sweeper, mode>>

InitTracker == InitWith("tracker", FALSE)

NextTracker ==
    \/ Tick
    \/ \E tool_name \in TrackedTools : RecordRequest(tool_name)
    \/ \E tool_name \in TrackedTools, w \in 0..MaxAge :
          GetUsageStats(tool_name, w)
    \/ \E max_age \in 0..MaxAge : CleanupOldData(max_age)

SpecTracker == InitTracker /\ [][NextTracker]_vars

(* --------------------------- the key harness -------------------------- *)

\* MCPCache._generate_key applied to two calls drawn from: two tool names, two
\* argument tuples, and every dict of at most two items over KwNames and
\* KwValues, in every insertion order
KeyTools == {"test_tool", "different_tool"}
KeyArgs == {<<"arg1">>, <<"arg1", "arg2">>}
KwValues == {"value1", "value2"}
KwItems == {<<KwNames[i], v>> : i \in 1..Len(KwNames), v \in KwValues}
KwDicts ==
    {<< >>} \cup {<<p>> : p \in KwItems}
            \cup {d \in {<<p, q>> : p \in KwItems, q \in KwItems} :
                     d[1][1] # d[2][1]}
KeyCalls == [tool_name : KeyTools, args : KeyArgs, kwargs : KwDicts]

GenerateKeys(c1, c2) ==
    /\ out = NoOut
    /\ out' = [op |-> "_generate_key", call1 |-> c1, call2 |-> c2,
               key1 |-> _generate_key(c1.tool_name, c1.args, c1.kwargs),
               key2 |-> _generate_key(c2.tool_name, c2.args, c2.kwargs)]
    /\ UNCHANGED <<now, tool_limits, limiters, cache, calls, hist, usage, shadow, sweeper, mode>>

InitKey == InitWith("key", FALSE)

NextKey == \E c1 \in KeyCalls, c2 \in KeyCalls : GenerateKeys(c1, c2)

SpecKey == InitKey /\ [][NextKey]_vars

(* ------------------------- the combined test -------------------------- *)

\* test_combined_cache_and_rate_limit: test_func, which takes no arguments and
\* returns "success", called up to four times against the limiter of the
\* process, with any waits in between up to Horizon: twice a sleep of 1.1 s,
\* which is any wait of more than 1 s and less than 2 s.
NoArgs == << >>

Horizon == 2 * (2 * TicksPerSecond - 1)

\* Time passes, up to the horizon of the longer scenarios: one tick
Elapse ==
    /\ now < Horizon
    /\ now' = now + 1
    /\ UNCHANGED <<tool_limits, limiters, cache, calls, hist, usage, out,
                   shadow, sweeper, mode>>

InitCombined == InitWith("combined", FALSE)

NextCombined ==
    \/ Elapse
    \/ Len(Starts) < 4 /\ CallStart("c1", TestFunc, NoArgs)
    \/ CallReturn("c1", [ok |-> TRUE, value |-> "success"])

SpecCombined == InitCombined /\ [][NextCombined]_vars

(* ------------------------------- errors ------------------------------- *)

\* errors.py: the parameters of each error class's __init__ that have no
\* default, and the status_code the class passes on to MCPBaseError (for
\* MCPBaseError itself, the default of its parameter)
RequiredParams ==
    ("MCPBaseError" :> {"message"}) @@
    ("MCPToolError" :> {"message"}) @@
    ("MCPValidationError" :> {"message"}) @@
    ("MCPAuthenticationError" :> {}) @@
    ("MCPRateLimitError" :> {}) @@
    ("MCPDependencyError" :> {"message", "dependency_name"})

StatusCodeOf ==
    ("MCPBaseError" :> 400) @@
    ("MCPToolError" :> 400) @@
    ("MCPValidationError" :> 422) @@
    ("MCPAuthenticationError" :> 401) @@
    ("MCPRateLimitError" :> 429) @@
    ("MCPDependencyError" :> 502)

\* error_class(**kwargs): the error constructed, or the TypeError Python raises
\* for a missing argument.  A message is the sequence of its pieces.
Construct(error_class, kwargs) ==
    IF ~(RequiredParams[error_class] \subseteq DOMAIN kwargs)
    THEN [raised |-> "TypeError"]
    ELSE [raised |-> None, cls |-> error_class,
          status_code |-> StatusCodeOf[error_class],
          message |-> IF error_class = "MCPDependencyError"
                      THEN <<kwargs.dependency_name, " error: ">>
                              \o kwargs.message
                      ELSE kwargs.message]

\* handle_http_error: error_mappings
error_mappings ==
    (400 :> "MCPToolError") @@
    (401 :> "MCPAuthenticationError") @@
    (422 :> "MCPValidationError") @@
    (429 :> "MCPRateLimitError") @@
    (502 :> "MCPDependencyError")

\* handle_http_error(status_code, detail): what it returns, or raises
handle_http_error(status_code, detail) ==
    LET error_class == IF status_code \in DOMAIN error_mappings
                       THEN error_mappings[status_code] ELSE "MCPBaseError"
    IN Construct(error_class, [message |-> detail])

\* handle_http_error applied once, to any HTTP error status and one of two
\* details (the first from test_handle_http_error)
HttpErrorCodes == 400..599
Details == {<<"Bad request">>, <<"Upstream failed">>}

HandleHttpError(status_code, detail) ==
    /\ out = NoOut
    /\ out' = [op |-> "handle_http_error", status_code |-> status_code,
               detail |-> detail,
               error |-> handle_http_error(status_code, detail)]
    /\ UNCHANGED <<now, tool_limits, limiters, cache, calls, hist, usage,
                   shadow, sweeper, mode>>

InitErrors == InitWith("errors", FALSE)

NextErrors ==
    \E status_code \in HttpErrorCodes, detail \in Details :
        HandleHttpError(status_code, detail)

SpecErrors == InitErrors /\ [][NextErrors]_vars

(* ------------------------ the concurrent callers ---------------------- *)

\* Two callers of test_func on one event loop: either may call while the other
\* is suspended in  await func(...), and the suspended calls complete in any
\* order, each returning one of the Results.  Every step is logged, up to
\* MaxHist steps.
InitConcurrent == \E injected \in BOOLEAN : InitWith("concurrent", injected)

NextConcurrent ==
    \/ Tick
    \/ \E c \in Callers, a \in ArgSets : CallStart(c, TestFunc, a)
    \/ \E c \in Callers, v \in Results :
          CallReturn(c, [ok |-> TRUE, value |-> v])

SpecConcurrent == InitConcurrent /\ [][NextConcurrent]_vars

(* ----------------------- the sweep and its twin ----------------------- *)

\* Two caches given the same set, get and clear calls at the same instants;
\* remove_expired runs on the first only, at any point
TwinSet(key, value, ttl_seconds) ==
    /\ cache' = set(cache, key, value, ttl_seconds, now)
    /\ shadow' = set(shadow, key, value, ttl_seconds, now)
    /\ out' = [op |-> "twin_set", key |-> key]
    /\ UNCHANGED <<now, tool_limits, limiters, calls, hist, usage, sweeper,
                   mode>>

\* The step also notes whether the entry read was missing from the swept
\* cache alone
TwinGet(key) ==
    LET g == get(cache, key, now)
        u == get(shadow, key, now)
    IN
    /\ cache' = g.cache
    /\ shadow' = u.cache
    /\ out' = [op |-> "twin_get", key |-> key, value |-> g.value,
               unswept |-> u.value,
               swept |-> key \in DOMAIN shadow \ DOMAIN cache]
    /\ UNCHANGED <<now, tool_limits, limiters, calls, hist, usage, sweeper,
                   mode>>

TwinClear ==
    /\ cache' = clear(cache)
    /\ shadow' = clear(shadow)
    /\ out' = [op |-> "twin_clear"]
    /\ UNCHANGED <<now, tool_limits, limiters, calls, hist, usage, sweeper,
                   mode>>

\* mcp_cache.remove_expired() in clean_expired_cache, on the first cache
SweepFirst ==
    /\ cache' = remove_expired(cache, now)
    /\ out' = [op |-> "remove_expired"]
    /\ UNCHANGED <<now, tool_limits, limiters, calls, hist, usage, shadow,
                   sweeper, mode>>

InitTwin == InitWith("twin", FALSE)

NextTwin ==
    \/ Tick
    \/ \E k \in DirectKeys, v \in DirectValues, ttl \in Ttls : TwinSet(k, v, ttl)
    \/ \E k \in DirectKeys : TwinGet(k)
    \/ TwinClear
    \/ SweepFirst

SpecTwin == InitTwin /\ [][NextTwin]_vars

(* ------------------------- the cache sweeper -------------------------- *)

\* clean_expired_cache as started by startup_event, next to callers that only
\* store (one value, every ttl_seconds).  The interval of the task, 300 s in the
\* code, is SweepSeconds here.
next_wake_never(t) == Horizon + 1

\* await asyncio.sleep(...) begun at clock reading t: when the task goes on
next_wake(t) == t + SweepSeconds * TicksPerSecond

Started == sweeper # NotStarted

\* startup_event: asyncio.create_task(clean_expired_cache()); the task is ready
\* to run at once
StartSweeper ==
    /\ ~Started
    /\ sweeper' = [status |-> "ready", wake |-> now]
    /\ UNCHANGED <<now, tool_limits, limiters, cache, calls, hist, usage, out,
                   shadow, mode>>

\* One round of the task's loop: remove_expired(), then sleep.  The log gets
\* the instant of the sweep and the entries it removed, as <<key, expires_at>>.
SweeperSweep ==
    /\ Started
    /\ now >= sweeper.wake
    /\ cache' = remove_expired(cache, now)
    /\ sweeper' = [status |-> "sleeping", wake |-> next_wake(now)]
    /\ hist' = Append(hist,
                 [kind |-> "sweep", at |-> now,
                  removed |-> {<<k, cache[k].expires_at>> :
                                 k \in DOMAIN cache
                                         \ DOMAIN remove_expired(cache, now)}])
    /\ UNCHANGED <<now, tool_limits, limiters, calls, usage, out, shadow, mode>>

\* Time passes while the task has nothing to do: it runs as soon as it is
\* ready or its sleep is over
SweeperElapse ==
    /\ Started
    /\ now < sweeper.wake
    /\ Elapse

InitSweeper == InitWith("sweeper", FALSE)

NextSweeper ==
    \/ StartSweeper
    \/ SweeperSweep
    \/ SweeperElapse
    \/ /\ Started
       /\ \E k \in DirectKeys, ttl \in Ttls : CacheSet(k, "value1", ttl)

SpecSweeper == InitSweeper /\ [][NextSweeper]_vars

\* The event loop runs the startup hook and the task when they are due, and
\* time does not stop before the horizon
SpecSweeperLive ==
    /\ SpecSweeper
    /\ WF_vars(StartSweeper)
    /\ WF_vars(SweeperSweep)
    /\ WF_vars(SweeperElapse)

(* ------------------------- the shared bucket -------------------------- *)

\* The limiter of the process asked on behalf of three endpoints of main.py,
\* each for one token: tavily_web_search and tavily_extract, which have no
\* entry in the table of limits, and compare_prices, which has one
SharedTools == {"tavily_web_search", "tavily_extract", "compare_prices"}

InitShared == InitWith("shared", FALSE)

NextShared ==
    \/ Tick
    \/ \E tool_name \in SharedTools : CheckRateLimit(tool_name, 1)

SpecShared == InitShared /\ [][NextShared]_vars

(* ----------------------- a caller that retries ------------------------ *)

\* wrapper of rate_limit(tool_name, tokens) around a function that does nothing
\* else: it asks the limiter and either goes on to the function or raises
\* MCPRateLimitError with the retry-after hint in its message
rate_limit(lims, limits, actual_tool, tokens, t) ==
    LET rl == check_rate_limit(lims, actual_tool, tokens, t) IN
    [raised |-> IF rl.ok THEN None ELSE "MCPRateLimitError",
     hint |-> IF rl.ok THEN 0
              ELSE FormatTenths(retry_after(limits, actual_tool)),
     bucket |-> rl.bucket,
     limiters |-> rl.limiters]

\* Decorated operations of three kinds: rate 1, rate 2, and no entry of its own
RetryTools == {"compare_prices", "find_pharmacies", "tavily_extract"}

\* tokens of the decorator: small costs and the whole capacity of the bucket
RetryCosts(tool_name) ==
    (1..MaxCost) \cup {limiters[ResolveBucket(limiters, tool_name)].capacity}

\* One call through the wrapper.  The caller remembers the rejection it got
\* (when, and the hint of the message) and, once granted, whether the granted
\* call was a retry and of which rejection.
Attempt(c, tool_name, tokens) ==
    LET r == rate_limit(limiters, tool_limits, tool_name, tokens, now)
        retry == calls[c].status = "rejected"
    IN /\ limiters' = r.limiters
       /\ calls' = [calls EXCEPT ![c] =
             IF r.raised = None
             THEN [status |-> "granted", tool |-> tool_name,
                   tokens |-> tokens, bucket |-> r.bucket, at |-> now,
                   retried |-> retry,
                   rejected_at |-> IF retry THEN calls[c].at ELSE now,
                   hint |-> IF retry THEN calls[c].hint ELSE 0]
             ELSE [status |-> "rejected", tool |-> tool_name,
                   tokens |-> tokens, bucket |-> r.bucket, at |-> now,
                   hint |-> r.hint]]
       /\ UNCHANGED <<now, tool_limits, cache, hist, usage, out, shadow,
                      sweeper, mode>>

\* A new request of the caller, who stays with the operation it called first
FirstAttempt(c) ==
    /\ calls[c].status # "rejected"
    /\ \E tool_name \in RetryTools :
          /\ IF calls[c] = Idle THEN TRUE ELSE calls[c].tool = tool_name
          /\ \E tokens \in RetryCosts(tool_name) :
                Attempt(c, tool_name, tokens)

\* The caller repeats the request that was rejected
Retry(c) ==
    /\ calls[c].status = "rejected"
    /\ Attempt(c, calls[c].tool, calls[c].tokens)

InitRetry == InitWith("retry", FALSE)

NextRetry ==
    \/ Elapse
    \/ FirstAttempt("c1")
    \/ Retry("c1")

SpecRetry == InitRetry /\ [][NextRetry]_vars

\* Time passes and the rejected caller keeps retrying
SpecRetryLive == SpecRetry /\ WF_vars(Elapse) /\ WF_vars(Retry("c1"))

(* ------------------------ the statistics query ------------------------ *)

\* What an MCPCache and a RateLimitTracker have: the attributes set in
\* __init__ and the methods of the class
MCPCacheAttrs ==
    {"_cache", "_ttl_seconds", "_generate_key", "get", "set", "clear",
     "remove_expired"}

RateLimitTrackerAttrs ==
    {"usage", "record_request", "get_usage_stats", "cleanup_old_data"}

\* get_mcp_stats(): the dict display is evaluated from left to right, and the
\* first expression that cannot be evaluated ends the handler: len() of an
\* object without __len__ raises TypeError, a missing attribute AttributeError
get_mcp_stats ==
    IF "__len__" \notin MCPCacheAttrs THEN [raised |-> "TypeError"]
    ELSE IF "hits" \notin MCPCacheAttrs \/ "misses" \notin MCPCacheAttrs
    THEN [raised |-> "AttributeError"]
    ELSE IF "get_usage" \notin RateLimitTrackerAttrs
    THEN [raised |-> "AttributeError"]
    ELSE [raised |-> None]

\* GET /mcp/stats
GetMcpStats ==
    /\ out' = [op |-> "get_mcp_stats", raised |-> get_mcp_stats.raised]
    /\ UNCHANGED <<now, tool_limits, limiters, cache, calls, hist, usage,
                   shadow, sweeper, mode>>

InitStats == InitWith("stats", FALSE)

\* The process serving a decorated operation and the statistics query
NextStats ==
    \/ Tick
    \/ \E a \in ArgSets : CallStart("c1", TestFunc, a)
    \/ \E v \in Results : CallReturn("c1", [ok |-> TRUE, value |-> v])
    \/ GetMcpStats

SpecStats == InitStats /\ [][NextStats]_vars

(* ===================== claims on the token bucket ===================== *)

\* The log of the bucket harness concerns one bucket, full at time 0.  What the
\* bucket held before logged operation i, and the refilled amount R the claims
\* speak of, computed from the log and the table of limits.
Cap(b) == tool_limits[b][2] * TicksPerSecond
Rate(b) == tool_limits[b][1]
TokensBefore(i) == IF i = 1 THEN Cap(hist[i].bucket) ELSE hist[i - 1].tokens
UpdateBefore(i) == IF i = 1 THEN 0 ELSE hist[i - 1].at
Grown(i) ==
    TokensBefore(i) + (hist[i].at - UpdateBefore(i)) * Rate(hist[i].bucket)
RefilledAt(i) == Min(Cap(hist[i].bucket), Grown(i))
Need(i) == hist[i].cost * TicksPerSecond

\* C4: every bucket holds at least 0 and at most capacity tokens, after
\* construction and after any sequence of acquires at any elapsed times.
C4_TokensWithinCapacity ==
    \A b \in DOMAIN limiters :
        /\ limiters[b].tokens >= 0
        /\ limiters[b].tokens <= limiters[b].capacity * TicksPerSecond

\* C4 witness: a refill was cut at the capacity and an acquire took the
\* bucket down to 0.
C4_Witness ==
    /\ \E i \in 1..Len(hist) : Grown(i) > Cap(hist[i].bucket)
    /\ \E i \in 1..Len(hist) : hist[i].ok /\ hist[i].tokens = 0

\* C5: acquire(cost) succeeds and leaves R - cost exactly when R >= cost, and
\* otherwise fails and leaves R, for R the refilled amount.
C5_AcquireAllOrNothing ==
    /\ \A i \in 1..Len(hist) :
         /\ hist[i].ok <=> RefilledAt(i) >= Need(i)
         /\ hist[i].tokens =
               IF RefilledAt(i) >= Need(i) THEN RefilledAt(i) - Need(i)
               ELSE RefilledAt(i)
    /\ hist # << >> =>
         limiters[hist[Len(hist)].bucket].tokens = hist[Len(hist)].tokens

\* C5 witness: an acquire failed on a bucket that held part of the cost, and
\* one succeeded.
C5_Witness ==
    /\ \E i \in 1..Len(hist) : ~hist[i].ok /\ RefilledAt(i) > 0
    /\ \E i \in 1..Len(hist) : hist[i].ok

\* Operations i..j take the whole capacity from a full bucket: one
\* acquire(capacity), or capacity acquires of 1
DrainsFull(i, j) ==
    /\ RefilledAt(i) = Cap(hist[i].bucket)
    /\ \/ j = i /\ Need(i) = Cap(hist[i].bucket)
       \/ /\ (j - i + 1) * TicksPerSecond = Cap(hist[i].bucket)
          /\ \A k \in i..j : hist[k].cost = 1

\* Operation j+1 is an acquire(1) with no time elapsed since operation i
FailsAfter(i, j) ==
    /\ j + 1 <= Len(hist)
    /\ hist[j + 1].cost = 1
    /\ hist[j + 1].at = hist[i].at

\* Operation j+2 is an acquire(1) at least 1/rate seconds after operation j+1
WaitsAfter(j) ==
    /\ j + 2 <= Len(hist)
    /\ hist[j + 2].cost = 1
    /\ (hist[j + 2].at - hist[j + 1].at) * Rate(hist[j + 2].bucket)
          >= TicksPerSecond

\* C6: from a full bucket, acquiring the whole capacity succeeds, an acquire(1)
\* with no time elapsed then fails, and an acquire(1) at least 1/rate seconds
\* later succeeds.
C6_DrainFailRefill ==
    \A i \in 1..Len(hist) : \A j \in i..Len(hist) :
        DrainsFull(i, j) =>
            /\ \A k \in i..j : hist[k].ok
            /\ FailsAfter(i, j) => ~hist[j + 1].ok
            /\ FailsAfter(i, j) /\ WaitsAfter(j) => hist[j + 2].ok

\* C6 witness: the whole sequence happened, the capacity taken one by one.
C6_Witness ==
    \E i \in 1..Len(hist) : \E j \in (i + 1)..Len(hist) :
        /\ DrainsFull(i, j)
        /\ FailsAfter(i, j)
        /\ WaitsAfter(j)
        /\ hist[j + 2].ok

(* ================= claims on the decorated operation ================== *)

\* The last step logged ("system" mode)
Last == hist[Len(hist)]

\* The cache key of a call of test_func and the bucket its tool name resolves to
KeyOf(a) == _generate_key(TestFunc.fname, a, NoKwargs)
BucketOf(w) == IF w.tool \in DOMAIN tool_limits THEN w.tool ELSE "default"

\* The amount a bucket holds once refilled for the time elapsed up to now
Refilled(b) ==
    Min(b.capacity * TicksPerSecond, b.tokens + (now - b.last_update) * b.rate)

Sufficient(w) == Refilled(limiters[BucketOf(w)]) >= w.tokens * TicksPerSecond

\* The cache holds a value under key whose expiry is still ahead
LiveValue(key) ==
    /\ key \in DOMAIN cache
    /\ cache[key].value # None
    /\ now < cache[key].expires_at

RateLimitError == [status |-> "raise", value |-> "MCPRateLimitError"]

\* C1: a call answered from a live cache entry consumes no rate-limit token
\* (the bucket holds afterwards what it would hold without the call) and is
\* never rejected for lack of tokens.
C1_CacheHitTakesNoToken ==
    [][\A a \in ArgSets :
        CallStart("c1", TestFunc, a) /\ LiveValue(KeyOf(a)) =>
            /\ Last'.outcome = "hit"
            /\ limiters'[BucketOf(TestFunc)].tokens =
                  Refilled(limiters[BucketOf(TestFunc)])]_vars

\* C3: a call made when the bucket lacks the tokens raises MCPRateLimitError
\* and does nothing else: the operation is not invoked, the cache is neither
\* read (a read would evict an expired entry) nor written.
C3_RejectionHasNoOtherEffect ==
    [][\A a \in ArgSets :
        CallStart("c1", TestFunc, a) /\ ~Sufficient(TestFunc) =>
            /\ Last'.outcome = "rate_limited"
            /\ Last'.result = RateLimitError
            /\ cache' = cache
            /\ calls' = calls]_vars

\* C3 witness: a call was rejected while the cache held an expired entry under
\* its key, which a lookup would have removed.
C3_Witness ==
    /\ hist # << >>
    /\ Last.kind = "start"
    /\ Last.outcome = "rate_limited"
    /\ Last.key \in DOMAIN cache
    /\ cache[Last.key].expires_at < now

\* C7: a value stored with time-to-live t is returned by a get less than t
\* after the set and absent from then on: whatever get returns has its expiry
\* strictly ahead.
C7_ReturnedEntryNotExpired ==
    [][\A a \in ArgSets :
        /\ CallStart("c1", TestFunc, a)
        /\ Sufficient(TestFunc)
        /\ KeyOf(a) \in DOMAIN cache
        /\ cache[KeyOf(a)].value # None
        => /\ now < cache[KeyOf(a)].expires_at =>
                 Last'.result = [status |-> "return",
                                 value |-> cache[KeyOf(a)].value]
           /\ now >= cache[KeyOf(a)].expires_at => Last'.outcome = "miss"]_vars

\* C8: the wrapped operation is invoked exactly when no live entry exists for
\* the key: with a live entry, whatever value it holds, the call returns it and
\* invokes nothing; with none or an expired one it invokes the operation, and
\* the result is stored with the configured time-to-live.
C8_InvokedExactlyWhenNoLiveEntry ==
    [][/\ \A a \in ArgSets :
            CallStart("c1", TestFunc, a) /\ Sufficient(TestFunc) =>
               /\ (KeyOf(a) \in DOMAIN cache
                     /\ now < cache[KeyOf(a)].expires_at) =>
                        /\ Last'.outcome = "hit"
                        /\ calls' = calls
               /\ (KeyOf(a) \notin DOMAIN cache
                     \/ now > cache[KeyOf(a)].expires_at) =>
                        /\ Last'.outcome = "miss"
                        /\ calls'["c1"].status = "awaiting"
       /\ \A o \in Outcomes :
            CallReturn("c1", o) /\ o.ok =>
               cache'[calls["c1"].key] =
                  [value |-> o.value,
                   expires_at |-> now + TestFunc.ttl * TicksPerSecond]]_vars

\* What the lookup at the start of a call leaves of the cache it found: an
\* expired entry under the call's key is gone
AfterLookup(call) ==
    IF call.key \in DOMAIN call.cache0
         /\ call.cache0[call.key].expires_at < call.at
    THEN Without(call.cache0, call.key)
    ELSE call.cache0

\* C9 as stated: a failure of the wrapped operation reaches the caller
\* unchanged and the cache is left exactly as it was before the call.
C9_FailureLeavesCacheAsBefore ==
    [][\A o \in Outcomes :
        CallReturn("c1", o) /\ ~o.ok =>
            /\ Last'.result = [status |-> "raise", value |-> o.value]
            /\ cache' = calls["c1"].cache0]_vars

\* C9 amended: a failure of the wrapped operation reaches the caller unchanged
\* and the call stores nothing: the cache is as before the call, but for an
\* expired entry under the call's key, which the lookup has removed; the next
\* call with the same arguments, when admitted, invokes the operation again.
C9_FailureCachesNothing ==
    [][/\ \A o \in Outcomes :
            CallReturn("c1", o) /\ ~o.ok =>
               /\ Last'.result = [status |-> "raise", value |-> o.value]
               /\ cache' = cache
               /\ cache' = AfterLookup(calls["c1"])
       /\ \A a \in ArgSets :
            /\ CallStart("c1", TestFunc, a)
            /\ Sufficient(TestFunc)
            /\ hist # << >>
            /\ Last.kind = "return"
            /\ Last.outcome = "failed"
            /\ Last.key = KeyOf(a)
            => /\ Last'.outcome = "miss"
               /\ calls'["c1"].status = "awaiting"]_vars

\* C9 witness: a call failed after its lookup had removed an expired entry.
C9_Witness ==
    /\ hist # << >>
    /\ Last.kind = "return"
    /\ Last.outcome = "failed"
    /\ Last.evicted

\* C10: the token a call has taken is not given back when the wrapped
\* operation fails, is cancelled or times out: the admitted call leaves
\* R - cost, the failure leaves every bucket as it is, and nothing is stored.
C10_NoRefundOnFailure ==
    [][/\ \A a \in ArgSets :
            CallStart("c1", TestFunc, a) /\ Sufficient(TestFunc) =>
               limiters'[BucketOf(TestFunc)].tokens =
                  Refilled(limiters[BucketOf(TestFunc)])
                     - TestFunc.tokens * TicksPerSecond
       /\ \A o \in Outcomes :
            CallReturn("c1", o) /\ ~o.ok =>
               /\ limiters' = limiters
               /\ limiters'[calls["c1"].bucket].tokens =
                     calls["c1"].tokens_after
               /\ cache' = cache]_vars

\* C10 witness: a call that had taken a token was cancelled, and the bucket is
\* still short of that token.
C10_Witness ==
    /\ hist # << >>
    /\ Last.kind = "return"
    /\ Last.result = [status |-> "raise", value |-> "CancelledError"]
    /\ limiters[Last.bucket].last_update = now
    /\ limiters[Last.bucket].tokens =
          limiters[Last.bucket].capacity * TicksPerSecond
             - Last.cost * TicksPerSecond

(* ================== claim on the end-to-end scenario ================== *)

\* Scripted call k is made at the instant of the first one
Quick(k) == Len(Starts) >= k /\ Starts[k].at = Starts[1].at

\* C2: with a bucket of rate 1 and capacity 2, three identical calls in quick
\* succession all succeed, the first invoking the operation and leaving 1
\* token, the next two answered from the cache at no cost; of three quick calls
\* with uncached arguments the first succeeds leaving 0 tokens, the second is
\* rejected, and the third succeeds after 1 second.
C2_EndToEndScenario ==
    /\ Len(Starts) >= 1 =>
          /\ Starts[1].outcome = "miss"
          /\ Starts[1].tokens = 1 * TicksPerSecond
    /\ \A k \in {2, 3} :
          Quick(k) =>
             /\ Starts[k].result = [status |-> "return", value |-> "success"]
             /\ Starts[k].tokens = 1 * TicksPerSecond
    /\ Quick(4) =>
          /\ Starts[4].outcome = "miss"
          /\ Starts[4].tokens = 0
    /\ Quick(4) /\ Quick(5) => Starts[5].result = RateLimitError
    /\ (Quick(4) /\ Quick(5) /\ Len(Starts) >= 6
          /\ Starts[6].at - Starts[5].at >= TicksPerSecond) =>
             Starts[6].outcome # "rate_limited"

(* ================= claims on the limiter's registry =================== *)

\* C11: whenever the rate_limit wrapper rejects a call, the retry-after hint it
\* reports is 1/rate of the bucket that rejected the call, for every operation
\* name, the names without a configured bucket (served by the default bucket)
\* included.
C11_RetryAfterIsReciprocalOfRate ==
    (hist # << >> /\ Last.outcome = "rate_limited") =>
        Last.hint = FormatTenths(<<1, limiters[Last.bucket].rate>>)

\* C12: check_rate_limit on a name without a configured bucket is decided by
\* the default bucket and creates no bucket; the registry holds one bucket per
\* entry of the table of limits, with that entry's rate and capacity, and the
\* same names after any sequence of check_rate_limit calls; the buckets that
\* decided no call are as constructed.
C12_UnconfiguredNameUsesDefault ==
    /\ DOMAIN limiters = DOMAIN tool_limits
    /\ \A name \in DOMAIN limiters :
          /\ limiters[name].rate = tool_limits[name][1]
          /\ limiters[name].capacity = tool_limits[name][2]
    /\ \A i \in 1..Len(hist) :
          /\ hist[i].bucket =
                IF hist[i].tool \in DOMAIN tool_limits THEN hist[i].tool
                ELSE "default"
          /\ hist[i].ok <=> RefilledAt(i) >= Need(i)
    /\ \A name \in DOMAIN limiters :
          (\A i \in 1..Len(hist) : hist[i].bucket # name) =>
              limiters[name] =
                 TokenBucket(tool_limits[name][1], tool_limits[name][2], 0)

\* C12 witness: test_tool has no configured bucket, and the default bucket has
\* decided calls for it, after some time and for more than one token.
C12_Witness ==
    /\ "test_tool" \notin DOMAIN tool_limits
    /\ Len(hist) >= 2
    /\ \A i \in 1..Len(hist) : hist[i].tool = "test_tool" /\ hist[i].ok
    /\ limiters["default"].last_update > 0
    /\ limiters["default"].tokens
          < limiters["default"].capacity * TicksPerSecond - TicksPerSecond

(* =================== claims on the usage tracker ====================== *)

\* C13: every invocation of a rate-limited operation appends one timestamp to
\* the usage samples of that operation, so that the usage statistics count one
\* more request after it.
C13_InvocationRecordsSample ==
    [][\A a \in ArgSets :
          CallStart("c1", TestFunc, a) =>
             /\ usage' = record_request(usage, TestFunc.tool, now)
             /\ get_usage_stats(usage', TestFunc.tool, DefaultTtl, now).requests
                   = get_usage_stats(usage, TestFunc.tool, DefaultTtl, now).requests
                       + 1]_vars

(* ======================= claims on the cache ========================== *)

\* Two dicts are equal when they hold the same items, in whatever order
SameDict(a, b) ==
    {a[i] : i \in 1..Len(a)} = {b[i] : i \in 1..Len(b)}

C15_GetEvictsOnlyItsExpiredEntry ==
    [][\A k \in DirectKeys :
          CacheGet(k) =>
             /\ (k \in DOMAIN cache /\ now > cache[k].expires_at) =>
                    /\ k \notin DOMAIN cache'
                    /\ out'.value = None
             /\ ~(k \in DOMAIN cache /\ now > cache[k].expires_at) =>
                    cache' = cache
             /\ \A j \in DirectKeys \ {k} :
                    /\ j \in DOMAIN cache' <=> j \in DOMAIN cache
                    /\ j \in DOMAIN cache => cache'[j] = cache[j]]_vars

\* C15 witness: a get has removed its expired entry and returned absent, and
\* an expired entry under the other key is still stored.
C15_Witness ==
    /\ out.op = "get"
    /\ out.evicted
    /\ out.value = None
    /\ out.key \notin DOMAIN cache
    /\ \E j \in DOMAIN cache : now > cache[j].expires_at

\* C16: after set(key, value, ttl) at time n the entry of key is exactly
\* {value, expires_at = n + ttl}, whatever was stored before, for every ttl
\* passed, 0 included; the default ttl is used only when none is passed.
C16_SetStoresPassedTtl ==
    [][\A k \in DirectKeys, v \in DirectValues, ttl \in Ttls :
          CacheSet(k, v, ttl) =>
             /\ k \in DOMAIN cache'
             /\ cache'[k] =
                   [value |-> v,
                    expires_at |->
                       now + (IF ttl = NoTtl THEN DefaultTtl ELSE ttl)
                                * TicksPerSecond]]_vars

\* C17: remove_expired removes exactly the entries whose expiry has passed and
\* leaves every other entry (key, value and expiry) unchanged; running it again
\* at the same instant changes nothing more.
C17_RemoveExpiredExactAndIdempotent ==
    [][RemoveExpired =>
          /\ DOMAIN cache' =
                {k \in DOMAIN cache : ~(now > cache[k].expires_at)}
          /\ \A k \in DOMAIN cache' : cache'[k] = cache[k]
          /\ remove_expired(cache', now) = cache']_vars

\* C17 witness: a sweep has removed an entry and kept one, whose expiry is the
\* instant of the sweep.
C17_Witness ==
    /\ out.op = "remove_expired"
    /\ out.evicted
    /\ \E k \in DOMAIN cache : cache[k].expires_at = now

\* C18: after clear() the cache is empty, and it stays empty, get returning
\* absent for every key, until the next set.
C18_ClearEmptiesUntilNextSet ==
    [][/\ CacheClear =>
             /\ cache' = << >>
             /\ \A k \in DirectKeys : get(cache', k, now).value = None
       /\ cache = << >> =>
             /\ cache' # << >> => out'.op = "set"
             /\ \A k \in DirectKeys : CacheGet(k) => out'.value = None]_vars

\* C18 witness: a clear() has emptied a cache that held entries.
C18_Witness ==
    /\ out.op = "clear"
    /\ out.evicted
    /\ cache = << >>

(* ================ claims on the usage tracker's queries =============== *)

\* The samples recorded for a tool, none when the tracker does not know it
SamplesOf(u, tool_name) ==
    IF tool_name \in DOMAIN u THEN u[tool_name] ELSE << >>

\* How many of the samples are later than / at or later than an instant
NewerThan(samples, t0) ==
    Cardinality({i \in 1..Len(samples) : samples[i] > t0})
NotOlderThan(samples, t0) ==
    Cardinality({i \in 1..Len(samples) : samples[i] >= t0})

\* The last n of the samples, in their order
LastOf(samples, n) == SubSeq(samples, Len(samples) - n + 1, Len(samples))

\* C19: get_usage_stats(operation, window) reports as count the number of the
\* operation's samples newer than now - window and as rate that count divided
\* by the window; an operation without samples reports count 0 and rate 0;
\* the query changes no sample sequence.
C19_UsageStatsCountAndRate ==
    [][\A tool_name \in TrackedTools, w \in 0..MaxAge :
          GetUsageStats(tool_name, w) =>
             LET samples == SamplesOf(usage, tool_name)
                 count == NewerThan(samples, now - w * TicksPerSecond)
                 stats == out'.stats
             IN /\ stats.requests = count
                /\ stats.rate[2] > 0
                /\ w > 0 => stats.rate[1] * w = count * stats.rate[2]
                /\ samples = << >> => stats.requests = 0 /\ stats.rate[1] = 0
                /\ usage' = usage]_vars

\* C19 witness: a query over a window that holds some of the tool's samples
\* and not the one recorded exactly a window ago.
C19_Witness ==
    /\ out.op = "get_usage_stats"
    /\ out.window_seconds > 0
    /\ out.stats.requests >= 1
    /\ \E i \in 1..Len(SamplesOf(usage, out.tool)) :
          usage[out.tool][i] = now - out.window_seconds * TicksPerSecond

\* C20 as stated: cleanup_old_data(max_age) drops, for every operation,
\* exactly the samples older than now - max_age and keeps the others in order;
\* with max_age = 0 it drops every sample, so that a following usage query
\* reports count 0 for every operation.
C20_CleanupDropsOlderOnly ==
    [][\A max_age \in 0..MaxAge :
          CleanupOldData(max_age) =>
             /\ DOMAIN usage' = DOMAIN usage
             /\ \A tool_name \in DOMAIN usage :
                   usage'[tool_name] =
                      LastOf(usage[tool_name],
                             NotOlderThan(usage[tool_name],
                                          now - max_age * TicksPerSecond))
             /\ max_age = 0 =>
                   \A tool_name \in TrackedTools, w \in 0..MaxAge :
                      get_usage_stats(usage', tool_name, w, now).requests = 0
       ]_vars

\* C20 amended: cleanup_old_data(max_age) drops, for every operation, exactly
\* the samples not newer than now - max_age (older, or recorded at that very
\* instant) and keeps the newer ones in order; with max_age = 0 it drops every
\* sample, so that a following usage query reports count 0 for every operation.
C20_CleanupDropsNotNewer ==
    [][\A max_age \in 0..MaxAge :
          CleanupOldData(max_age) =>
             /\ DOMAIN usage' = DOMAIN usage
             /\ \A tool_name \in DOMAIN usage :
                   usage'[tool_name] =
                      LastOf(usage[tool_name],
                             NewerThan(usage[tool_name],
                                       now - max_age * TicksPerSecond))
             /\ max_age = 0 =>
                   \A tool_name \in TrackedTools, w \in 0..MaxAge :
                      get_usage_stats(usage', tool_name, w, now).requests = 0
       ]_vars

\* C20 witness: a cleanup with a positive maximal age has dropped samples, one
\* of them recorded exactly at the cutoff, and has kept others.
C20_Witness ==
    /\ out.op = "cleanup_old_data"
    /\ out.max_age_seconds > 0
    /\ out.dropped >= 2
    /\ out.at_cutoff
    /\ Held(usage) # {}

(* ==================== claim on the combined test ====================== *)

\* test_func returns at the instant it is called
Prompt ==
    \A i \in 1..Len(hist) :
        hist[i].kind = "return" => hist[i].at = hist[i - 1].at

\* Call k is made at the instant of call k-1, or after a sleep of 1.1 s
Immediate(k) == Len(Starts) >= k /\ Starts[k].at = Starts[k - 1].at
Slept(k) ==
    /\ Len(Starts) >= k
    /\ Starts[k].at - Starts[k - 1].at > TicksPerSecond
    /\ Starts[k].at - Starts[k - 1].at < 2 * TicksPerSecond

Invocations == Len(SelectSeq(Starts, LAMBDA e : e.outcome = "miss"))

\* C21: for test_func under rate_limit("test_tool") outside
\* cache_mcp_result(ttl 1 s) and the limiter of the process, the first call
\* invokes the operation; an immediate second call returns the cached result
\* without invoking it; a third call 1.1 s later is rejected with
\* MCPRateLimitError; a fourth call 1.1 s after that invokes the operation,
\* for 2 invocations in total.
C21_CombinedTestScenario ==
    Prompt =>
       /\ Len(Starts) >= 1 => Starts[1].outcome = "miss"
       /\ Immediate(2) =>
             /\ Starts[2].outcome = "hit"
             /\ Starts[2].result = [status |-> "return", value |-> "success"]
       /\ Immediate(2) /\ Slept(3) => Starts[3].result = RateLimitError
       /\ Immediate(2) /\ Slept(3) /\ Slept(4) =>
             /\ Starts[4].outcome = "miss"
             /\ Invocations = 2

(* ==================== claim on the error mapping ====================== *)

\* C22: handle_http_error(status, detail) never raises: for every status code
\* of its mapping (400, 401, 422, 429, 502) it returns an error of the mapped
\* class whose status_code is that code and whose message is detail, and for
\* every other status code an MCPBaseError whose message is detail.
C22_HandleHttpErrorNeverRaises ==
    out.op = "handle_http_error" =>
        /\ out.error.raised = None
        /\ out.error.message = out.detail
        /\ out.status_code \in DOMAIN error_mappings =>
              /\ out.error.cls = error_mappings[out.status_code]
              /\ out.error.status_code = out.status_code
        /\ out.status_code \notin DOMAIN error_mappings =>
              out.error.cls = "MCPBaseError"

(* ================= claims on the concurrent callers =================== *)

\* What the bucket held before the k-th call and when it was last refilled
\* (every call refills it, the completions do not touch it), and the amount R
\* the k-th call found after its refill
HeldBefore(k) ==
    IF k = 1 THEN Cap(Starts[k].bucket) ELSE Starts[k - 1].tokens
StampBefore(k) == IF k = 1 THEN 0 ELSE Starts[k - 1].at
FoundAt(k) ==
    Min(Cap(Starts[k].bucket),
        HeldBefore(k) + (Starts[k].at - StampBefore(k)) * Rate(Starts[k].bucket))

Granted(i, j) == Cardinality({k \in i..j : Starts[k].ok})

\* C23: under any interleaving of concurrent callers of the same operation the
\* refill, check and deduction of a call are one step: a call is granted
\* exactly when the bucket, refilled, holds its cost, and leaves the bucket
\* with that much less (otherwise as refilled), so two callers are never both
\* granted from tokens that suffice for one; and the cost-1 calls granted
\* during any interval of length T never exceed capacity + rate * T.
C23_ConcurrentCallersShareOneBucket ==
    /\ \A k \in 1..Len(Starts) :
          LET need == Starts[k].cost * TicksPerSecond IN
          /\ Starts[k].ok <=> FoundAt(k) >= need
          /\ Starts[k].tokens =
                IF FoundAt(k) >= need THEN FoundAt(k) - need ELSE FoundAt(k)
    /\ \A i \in 1..Len(Starts) : \A j \in i..Len(Starts) :
          Granted(i, j) * TicksPerSecond
             <= Cap(Starts[i].bucket)
                   + Rate(Starts[i].bucket) * (Starts[j].at - Starts[i].at)

\* C23 witness: with one token in the bucket, two different callers called at
\* the same instant, the second while the first was suspended: the first was
\* granted and the second rejected.
C23_Witness ==
    \E k \in 2..Len(Starts) :
        /\ Starts[k].caller # Starts[k - 1].caller
        /\ Starts[k].at = Starts[k - 1].at
        /\ FoundAt(k - 1) = Starts[k - 1].cost * TicksPerSecond
        /\ Starts[k - 1].outcome = "miss"
        /\ calls[Starts[k - 1].caller] # Idle
        /\ ~Starts[k].ok

\* Logged steps i < j are calls of two callers with the same key, the first
\* suspended in the operation (a miss, not completed before step j) and the
\* second granted by the limiter, with no completion for the key in between
Racing(i, j) ==
    /\ i < j
    /\ hist[i].kind = "start" /\ hist[j].kind = "start"
    /\ hist[i].caller # hist[j].caller
    /\ hist[i].key = hist[j].key
    /\ hist[i].outcome = "miss"
    /\ hist[j].ok
    /\ \A m \in (i + 1)..(j - 1) :
          ~(hist[m].kind = "return" /\ hist[m].key = hist[i].key)

\* C24: the cache wrapper does not coalesce requests: a call made while another
\* call with the same key is still in the operation misses the cache and
\* invokes the operation too; each of them writes the cache when it completes,
\* so that the entry that remains (value and expiry) is that of the call that
\* completed last.
C24_NoCoalescingLastWriteWins ==
    /\ \A i \in 1..Len(hist) : \A j \in 1..Len(hist) :
          Racing(i, j) => hist[j].outcome = "miss"
    /\ (hist # << >> /\ Last.kind = "return" /\ Last.outcome = "stored") =>
          /\ Last.key \in DOMAIN cache
          /\ cache[Last.key] =
                [value |-> Last.result.value,
                 expires_at |-> Last.at + TestFunc.ttl * TicksPerSecond]

\* C24 witness: two racing calls, both invoked, completed one after the other
\* with different values and at different instants; the entry is the later
\* one's.
C24_Witness ==
    /\ Len(hist) = 4
    /\ Racing(1, 2)
    /\ hist[3].kind = "return" /\ hist[4].kind = "return"
    /\ hist[3].outcome = "stored" /\ hist[4].outcome = "stored"
    /\ hist[3].result.value # hist[4].result.value
    /\ hist[3].at < hist[4].at
    /\ cache[hist[1].key].value = hist[4].result.value
    /\ cache[hist[1].key].expires_at > hist[3].at + TestFunc.ttl * TicksPerSecond

(* ===================== claims on the cache sweep ====================== *)

\* C25: the periodic sweep is invisible to readers: for any sequence of set,
\* get and clear at given times, every get returns the same result whether or
\* not remove_expired runs at arbitrary points in between.
C25_SweepInvisibleToGet ==
    out.op = "twin_get" => out.value = out.unswept

\* C25 witness: a get of a key whose expired entry the sweep had removed from
\* the first cache, while the other key's live entry is in both.
C25_Witness ==
    /\ out.op = "twin_get"
    /\ out.swept
    /\ out.value = None
    /\ \E k \in DOMAIN cache : k \in DOMAIN shadow /\ now < cache[k].expires_at

\* An entry with this expiry is stored under the key
Stored(k, e) == k \in DOMAIN cache /\ cache[k].expires_at = e

\* The sweeps made at or after an instant
SweepsSince(e) ==
    Cardinality({i \in 1..Len(hist) : hist[i].at >= e})

\* The sweeper sweeps as soon as it is started and then once per interval, and
\* no entry is still stored after the second sweep since its expiry
SweeperOnTime ==
    /\ Started =>
          /\ hist = << >> => sweeper.wake = now
          /\ sweeper.wake <= now + SweepSeconds * TicksPerSecond
    /\ \A i \in 2..Len(hist) :
          hist[i].at = hist[i - 1].at + SweepSeconds * TicksPerSecond
    /\ \A k \in DOMAIN cache : SweepsSince(cache[k].expires_at) <= 1

\* C26: once the startup hook has launched the sweeper it sweeps immediately
\* and then once per interval, for ever, so every entry that expires is
\* eventually removed from the cache even if its key is never read again, at
\* the latest by the second sweep after its expiry instant (for the expiries
\* that leave an interval before the horizon).
C26_SweeperRemovesExpiredEntries ==
    /\ []SweeperOnTime
    /\ \A k \in DirectKeys :
          \A e \in 0..(Horizon - SweepSeconds * TicksPerSecond) :
             Stored(k, e) ~> ~Stored(k, e)

\* C26 witness: the second sweep since its expiry has removed an entry that
\* expired at the very instant of the sweep before.
C26_Witness ==
    \E i \in 2..Len(hist) :
        \E r \in hist[i].removed : r[2] = hist[i - 1].at

(* ================= further claims on the token bucket ================= *)

\* What the bucket of the bucket harness held after logged operation i and
\* when, operation 0 being its construction
HeldAfter(i) == IF i = 0 THEN Cap(hist[1].bucket) ELSE hist[i].tokens
StampAfter(i) == IF i = 0 THEN 0 ELSE hist[i].at

\* Operations i+1..j all failed
AllFailed(i, j) == \A m \in (i + 1)..j : ~hist[m].ok

\* C27: refill is proportional to the time elapsed and fractions of a token
\* are not lost: over a period in which every acquire fails, however many
\* there are, the bucket gains rate times the length of the period, capped at
\* the capacity; two failed attempts 0.5/rate apart leave a full token at the
\* end of 1/rate.
C27_RefillProportionalToTime ==
    \A i \in 0..Len(hist) : \A j \in (i + 1)..Len(hist) :
        AllFailed(i, j) =>
            hist[j].tokens =
               Min(Cap(hist[j].bucket),
                   HeldAfter(i)
                     + (hist[j].at - StampAfter(i)) * Rate(hist[j].bucket))

\* C27 witness: the bucket emptied, an acquire(1) failing at once and another
\* 0.5/rate later, and an acquire(1) granted at 1/rate.
C27_Witness ==
    \E i \in 1..Len(hist) :
        /\ i + 3 <= Len(hist)
        /\ hist[i].tokens = 0
        /\ hist[i + 1].at = hist[i].at
        /\ AllFailed(i, i + 2)
        /\ (hist[i + 2].at - hist[i + 1].at) * Rate(hist[i].bucket) * 2
              = TicksPerSecond
        /\ (hist[i + 3].at - hist[i + 1].at) * Rate(hist[i].bucket)
              = TicksPerSecond
        /\ \A m \in (i + 1)..(i + 3) : hist[m].cost = 1
        /\ hist[i + 3].ok

(* ==================== claim on the shared bucket ====================== *)

Unconfigured(tool_name) == tool_name \notin DOMAIN tool_limits

\* Whether a request of cost k for a tool would be granted now by the limiter
WouldGrant(lims, tool_name, k) == check_rate_limit(lims, tool_name, k, now).ok

\* C28: all operation names without a configured bucket draw from the one
\* default bucket: a token granted to one of them is no longer available to
\* any other, whereas a call to a configured operation changes no bucket but
\* its own (and so nothing for the unconfigured ones).
C28_UnconfiguredNamesShareDefault ==
    [][\A tool_name \in SharedTools :
          CheckRateLimit(tool_name, 1) =>
             LET own == IF Unconfigured(tool_name) THEN "default"
                        ELSE tool_name
                 others == {t \in SharedTools \ {tool_name} : Unconfigured(t)}
                 costs == 1..limiters["default"].capacity
             IN /\ Last'.bucket = own
                /\ \A b \in DOMAIN limiters \ {own} : limiters'[b] = limiters[b]
                /\ (Unconfigured(tool_name) /\ Last'.ok) =>
                      \A t \in others : \A k \in costs :
                         WouldGrant(limiters', t, k) <=>
                            (k + 1) * TicksPerSecond
                               <= Refilled(limiters["default"])
                /\ ~Unconfigured(tool_name) =>
                      \A t \in others : \A k \in costs :
                         WouldGrant(limiters', t, k)
                            <=> WouldGrant(limiters, t, k)]_vars

\* C28 witness: a call of tavily_web_search has just been granted from a
\* default bucket too low for a call of tavily_extract to follow, while the
\* bucket of compare_prices has given out tokens of its own.
C28_Witness ==
    /\ hist # << >>
    /\ Last.tool = "tavily_web_search"
    /\ Last.ok
    /\ Last.bucket = "default"
    /\ ~WouldGrant(limiters, "tavily_extract", 1)
    /\ limiters["compare_prices"].tokens
          < limiters["compare_prices"].capacity * TicksPerSecond

(* ================== claim on retrying after a rejection =============== *)

\* The caller stands rejected and the clock of the model has time enough left
\* for its bucket to refill to the cost of the request
Due(c) ==
    /\ calls[c].status = "rejected"
    /\ Refilled(limiters[calls[c].bucket])
          + (Horizon - now) * limiters[calls[c].bucket].rate
             >= calls[c].tokens * TicksPerSecond

\* The retry-after of the last rejection has passed: the hint of the message
\* (tenths of a second), or 1/rate of the bucket
HintPassed(c) == calls[c].hint * TicksPerSecond <= 10 * (now - calls[c].at)
PeriodPassed(c) ==
    (now - calls[c].at) * limiters[calls[c].bucket].rate >= TicksPerSecond

\* C29: a rejection is never permanent.  With nobody else consuming from the
\* bucket, a caller that keeps retrying a request of a cost between 1 and
\* capacity as time advances is eventually granted; and after a rejected call
\* of cost 1, a retry made at least the retry-after later is granted.
C29_RejectionNotPermanent ==
    /\ [][(/\ Retry("c1")
           /\ calls["c1"].tokens = 1
           /\ HintPassed("c1") \/ PeriodPassed("c1"))
             => calls'["c1"].status = "granted"]_vars
    /\ Due("c1") ~> calls["c1"].status = "granted"

\* C29 witness: a request of find_pharmacies for one token is granted as the
\* retry of a rejection, made exactly the 0.5 s of the hint later.
C29_Witness ==
    /\ calls["c1"].status = "granted"
    /\ calls["c1"].tool = "find_pharmacies"
    /\ calls["c1"].tokens = 1
    /\ calls["c1"].retried
    /\ calls["c1"].hint = 5
    /\ 10 * (calls["c1"].at - calls["c1"].rejected_at)
          = calls["c1"].hint * TicksPerSecond

(* =================== claim on the statistics query ==================== *)

\* C30: in every reachable state of the process the statistics query
\* (GET /mcp/stats) completes without error, returning the cache size and
\* hit/miss counters and the usage of the four configured tools.
C30_StatsQueryCompletes ==
    out.op = "get_mcp_stats" => out.raised = None

====
